---------------------------- MODULE Spec2Model ----------------------------
(***************************************************************************)
(* Stage 3 of the Go ELOC/CFP pipeline                                     *)
(* (src/scripts/stage3_estimate_cfp_threaded.py): the pattern table, the   *)
(* file scanner detect_movements, the metric derivation of process_repo    *)
(* and the thread-pool aggregation loop of main.                           *)
(*                                                                         *)
(* Text is modelled by TLA+ strings, one character per position.  Derived  *)
(* ratios (round(x, 2)) are kept as integers counting hundredths.          *)
(***************************************************************************)
EXTENDS Integers, Sequences, FiniteSets, TLC

(***************************************************************************)
(* Python str operations used by the scanner.                              *)
(***************************************************************************)
Char(s, i) == SubSeq(s, i, i)

\* tok in s
Contains(tok, s) ==
    \E i \in 1..(Len(s) - Len(tok) + 1) : SubSeq(s, i, i + Len(tok) - 1) = tok

\* s.endswith(suf)
EndsWith(s, suf) ==
    /\ Len(suf) <= Len(s)
    /\ SubSeq(s, Len(s) - Len(suf) + 1, Len(s)) = suf

\* os.path.join(a, b) for a relative b
PathJoin(a, b) == a \o "/" \o b

(***************************************************************************)
(* Character classes of the re module, for ASCII text.                     *)
(***************************************************************************)
UpperStr == "ABCDEFGHIJKLMNOPQRSTUVWXYZ"
LowerStr == "abcdefghijklmnopqrstuvwxyz"
DigitStr == "0123456789"

Uppers == {Char(UpperStr, i) : i \in 1..Len(UpperStr)}
Lowers == {Char(LowerStr, i) : i \in 1..Len(LowerStr)}
Digits == {Char(DigitStr, i) : i \in 1..Len(DigitStr)}

LowerOf == [c \in Uppers |->
              Char(LowerStr, CHOOSE i \in 1..Len(UpperStr) : Char(UpperStr, i) = c)]

\* the case folding re.IGNORECASE applies to one character
FoldChar(c) == IF c \in Uppers THEN LowerOf[c] ELSE c

RECURSIVE FoldStr(_)
FoldStr(s) ==
    IF s = "" THEN "" ELSE FoldChar(Char(s, 1)) \o FoldStr(SubSeq(s, 2, Len(s)))

IsWordChar(c) == c \in Uppers \cup Lowers \cup Digits \cup {"_"}
IsSpaceChar(c) == c \in {" ", "\t", "\n", "\r", "\f"}

\* Membership of one character in a class; ic is the IGNORECASE flag.
\*   "AZ"  [A-Z]      "w"  \w      "s"  \s      "dot"  .
InClass(cls, c, ic) ==
    CASE cls = "AZ"  -> c \in Uppers \/ (ic /\ c \in Lowers)
      [] cls = "w"   -> IsWordChar(c)
      [] cls = "s"   -> IsSpaceChar(c)
      [] cls = "dot" -> c # "\n"

(***************************************************************************)
(* Regular expressions: a pattern is a sequence of elements.               *)
(*   WB           \b                                                       *)
(*   Lit(s)       the literal text s                                       *)
(*   Alt(opts)    (o1|o2|...), literal alternatives tried left to right    *)
(*   Cls(c)       one character of class c                                 *)
(*   Rep(c, min)  class c repeated min or more times, greedy (c* / c+)     *)
(***************************************************************************)
Elem(t, s, opts, cls, min) ==
    [t |-> t, s |-> s, opts |-> opts, cls |-> cls, min |-> min]
WB == Elem("wb", "", <<>>, "", 0)
Lit(s) == Elem("lit", s, <<>>, "", 0)
Alt(opts) == Elem("alt", "", opts, "", 0)
Cls(c) == Elem("cls", "", <<>>, c, 0)
Rep(c, min) == Elem("rep", "", <<>>, c, min)

\* \b at position i: exactly one of text[i-1], text[i] is a word character
AtBoundary(text, i) ==
    LET before == i > 1 /\ IsWordChar(Char(text, i - 1))
        after == i <= Len(text) /\ IsWordChar(Char(text, i))
    IN before # after

\* the literal lit at position i of text
LitAt(lit, text, i, ic) ==
    /\ i + Len(lit) - 1 <= Len(text)
    /\ LET got == SubSeq(text, i, i + Len(lit) - 1)
       IN IF ic THEN FoldStr(got) = FoldStr(lit) ELSE got = lit

\* length of the longest run of class cls starting at position i
RECURSIVE RunLen(_, _, _, _)
RunLen(cls, text, i, ic) ==
    IF i <= Len(text) /\ InClass(cls, Char(text, i), ic)
    THEN 1 + RunLen(cls, text, i + 1, ic)
    ELSE 0

\* Backtracking match of pat[k..] at position i: the position after the match
\* the re engine settles on, or 0 when there is none.
RECURSIVE MatchFrom(_, _, _, _, _)
RECURSIVE TryAlt(_, _, _, _, _, _)
RECURSIVE TryRep(_, _, _, _, _, _)
MatchFrom(pat, k, text, i, ic) ==
    IF k > Len(pat) THEN i
    ELSE LET e == pat[k] IN
         CASE e.t = "wb"  -> IF AtBoundary(text, i)
                             THEN MatchFrom(pat, k + 1, text, i, ic) ELSE 0
           [] e.t = "lit" -> IF LitAt(e.s, text, i, ic)
                             THEN MatchFrom(pat, k + 1, text, i + Len(e.s), ic) ELSE 0
           [] e.t = "alt" -> TryAlt(pat, k, text, i, ic, 1)
           [] e.t = "cls" -> IF i <= Len(text) /\ InClass(e.cls, Char(text, i), ic)
                             THEN MatchFrom(pat, k + 1, text, i + 1, ic) ELSE 0
           [] e.t = "rep" -> TryRep(pat, k, text, i, ic, RunLen(e.cls, text, i, ic))

\* alternatives of pat[k] from the j-th on, the first that lets the rest match
TryAlt(pat, k, text, i, ic, j) ==
    IF j > Len(pat[k].opts) THEN 0
    ELSE LET o == pat[k].opts[j]
             r == IF LitAt(o, text, i, ic)
                  THEN MatchFrom(pat, k + 1, text, i + Len(o), ic) ELSE 0
         IN IF r # 0 THEN r ELSE TryAlt(pat, k, text, i, ic, j + 1)

\* greedy repetition of pat[k]: n characters, then fewer, down to min
TryRep(pat, k, text, i, ic, n) ==
    IF n < pat[k].min THEN 0
    ELSE LET r == MatchFrom(pat, k + 1, text, i + n, ic)
         IN IF r # 0 THEN r ELSE TryRep(pat, k, text, i, ic, n - 1)

\* len(re.findall(p, text, flags)): non-overlapping matches, left to right
RECURSIVE CountFrom(_, _, _, _)
CountFrom(pat, text, i, ic) ==
    IF i > Len(text) THEN 0
    ELSE LET r == MatchFrom(pat, 1, text, i, ic)
         IN IF r = 0 THEN CountFrom(pat, text, i + 1, ic)
            ELSE 1 + CountFrom(pat, text, IF r = i THEN i + 1 ELSE r, ic)

FindAllCount(pat, text, ic) == CountFrom(pat, text, 1, ic)

(***************************************************************************)
(* The pattern table.                                                      *)
(***************************************************************************)
\* r"\bfunc\s+[A-Z]\w*\("  "exported functions as entry points"
FuncDeclRule == <<WB, Lit("func"), Rep("s", 1), Cls("AZ"), Rep("w", 0), Lit("(")>>

PATTERNS ==
    [entry |-> << <<WB, Lit("router."), Alt(<<"GET", "POST", "PUT", "DELETE", "PATCH">>)>>,
                  <<WB, Lit("mux.HandleFunc")>>,
                  <<WB, Lit("app."), Alt(<<"Get", "Post", "Put", "Delete", "Patch">>)>>,
                  <<WB, Lit("cobra.Command")>>,
                  <<WB, Lit("Register"), Rep("dot", 0), Lit("Server")>>,
                  <<WB, Lit("http.HandleFunc")>>,
                  <<WB, Lit("grpc.NewServer")>>,
                  <<WB, Lit("chi.NewRouter")>>,
                  <<WB, Lit("fiber.New")>>,
                  <<WB, Lit("gin.Default")>>,
                  FuncDeclRule >>,
     exit |-> << <<WB, Lit("ctx.JSON")>>,
                 <<WB, Lit("w.Write")>>,
                 <<WB, Lit("http.ResponseWriter")>>,
                 <<WB, Lit("return"), Rep("s", 1), Lit("json")>>,
                 <<WB, Lit("return"), Rep("s", 1), Lit("fmt.Sprintf")>>,
                 <<WB, Lit("template.Execute")>>,
                 <<WB, Lit("render."), Alt(<<"HTML", "JSON", "Template">>)>>,
                 <<WB, Lit("fmt.Fprintf")>> >>,
     read |-> << <<WB, Lit("db."), Alt(<<"Find", "Select", "Query", "QueryRow",
                                         "QueryRows", "First", "Where">>)>>,
                 <<WB, Lit("read"), Rep("dot", 0), Lit("File")>>,
                 <<WB, Lit("ios.Open")>>,
                 <<WB, Lit("json.Unmarshal")>>,
                 <<WB, Lit("ioutil.ReadFile")>> >>,
     write |-> << <<WB, Lit("db."), Alt(<<"Create", "Save", "Exec", "Update",
                                          "Insert", "SaveChanges">>)>>,
                  <<WB, Lit("write"), Rep("dot", 0), Lit("File")>>,
                  <<WB, Lit("ios.Write")>>,
                  <<WB, Lit("json.Marshal")>>,
                  <<WB, Lit("ioutil.WriteFile")>> >>,
     channel |-> << <<Lit("<-chan")>>,
                    <<Lit("chan"), Rep("s", 0), Lit("<-")>> >>,
     goroutine |-> << <<WB, Lit("go"), Rep("s", 1), Rep("w", 1), Lit("(")>> >>]

Categories == DOMAIN PATTERNS

\* the flag every re.findall call of the scanner passes
IGNORECASE == TRUE


(***************************************************************************)
(* The file system under REPO_DIR, as os.path.exists and os.walk see it.   *)
(* A directory entry is what os.walk yields: its path and its files; a     *)
(* file is its name, whether open() and read() succeed on it, and its text.*)
(***************************************************************************)
REPO_DIR == "repos"

File(name, readable, text) == [name |-> name, readable |-> readable, text |-> text]
Dir(root, files) == [root |-> root, files |-> files]

TextHandler == "func Handler(w http.ResponseWriter, r *Request) { w.Write(data) }"
TextHelper == "func helper() { go run(jobs) }"
TextStore == "b, _ := ioutil.ReadFile(p); db.Exec(q); out <-chan int"
TextPlain == "package main"
TextTest == "func TestScan(t *testing.T) { db.Query(q) }"

FileSystem ==
    ("repos/alpha" :>
        << Dir("repos/alpha",
               << File("main.go", TRUE, TextHandler),
                  File("main_test.go", TRUE, TextTest),
                  File("README.md", TRUE, TextHandler),
                  File("util.go", TRUE, TextHelper) >>),
           Dir("repos/alpha/internal/mygenerated", << File("zz.go", TRUE, TextStore) >>),
           Dir("repos/alpha/vendor", << File("dep.go", TRUE, TextStore) >>),
           Dir("repos/alpha/vendor/lib", << File("lib.go", TRUE, TextHandler) >>) >>)
    @@ ("repos/beta" :>
        << Dir("repos/beta",
               << File("locked.go", FALSE, TextHandler),
                  File("store.go", TRUE, TextStore) >>) >>)
    @@ ("repos/empty" :>
        << Dir("repos/empty", << File("doc.go", TRUE, TextPlain) >>) >>)

\* os.path.exists(path)
PathExists(path) == path \in DOMAIN FileSystem

\* os.walk(path): the directory entries under an existing path, top down
OsWalk(path) == FileSystem[path]

(***************************************************************************)
(* detect_movements                                                        *)
(***************************************************************************)
ZeroCounts == [k \in Categories |-> 0]

RECURSIVE SumRules(_, _, _)
SumRules(rules, text, j) ==
    IF j > Len(rules) THEN 0
    ELSE FindAllCount(rules[j], text, IGNORECASE) + SumRules(rules, text, j + 1)

\* the matches of one text, per category: the loops over PATTERNS.items()
MatchCounts(text) == [move \in Categories |-> SumRules(PATTERNS[move], text, 1)]

\* the texts of the files on disk, and their matches tabulated
FileTexts ==
    UNION { UNION { {FileSystem[p][d].files[f].text : f \in DOMAIN FileSystem[p][d].files} :
                       d \in DOMAIN FileSystem[p] } : p \in DOMAIN FileSystem }

MatchTable == [text \in FileTexts |-> MatchCounts(text)]

SkipTokens == {"vendor", "third_party", "generated"}

\* the test on the last path segment only
SkippedLastSegment(root) == \E skip \in SkipTokens : EndsWith(root, "/" \o skip)

\* any(skip in root for skip in ["vendor", "third_party", "generated"])
SkippedDir(root) == \E skip \in SkipTokens : Contains(skip, root)

\* not (not f.endswith(".go") or f.endswith("_test.go"))
EligibleName(f) == EndsWith(f, ".go") /\ ~EndsWith(f, "_test.go")

\* the files the two loops of detect_movements reach open() for, in order
RECURSIVE EligibleFrom(_, _)
EligibleFrom(walk, d) ==
    IF d > Len(walk) THEN <<>>
    ELSE (IF SkippedDir(walk[d].root) THEN <<>>
          ELSE SelectSeq(walk[d].files, LAMBDA f : EligibleName(f.name)))
         \o EligibleFrom(walk, d + 1)

\* the walk of every repository on disk, tabulated
EligibleTable == [p \in DOMAIN FileSystem |-> EligibleFrom(OsWalk(p), 1)]

EligibleFiles(repo_path) == EligibleTable[repo_path]

\* a failing read that leaves the entry matches behind
ScanOnePartial(counts, file) ==
    IF file.readable
    THEN [k \in Categories |-> counts[k] + MatchTable[file.text][k]]
    ELSE [counts EXCEPT !["entry"] = @ + MatchTable[file.text]["entry"]]

\* the try block on one file: all of its matches are added, or, when open()
\* or read() raises, none
ScanOne(counts, file) ==
    IF file.readable
    THEN [k \in Categories |-> counts[k] + MatchTable[file.text][k]]
    ELSE counts

RECURSIVE ScanFrom(_, _, _)
ScanFrom(files, i, counts) ==
    IF i > Len(files) THEN counts
    ELSE ScanFrom(files, i + 1, ScanOne(counts, files[i]))

\* detect_movements(repo_path), run without interruption
DetectMovements(repo_path) == ScanFrom(EligibleFiles(repo_path), 1, ZeroCounts)

(***************************************************************************)
(* process_repo: metric derivation                                         *)
(***************************************************************************)
MULTIPLIERS ==
    [entry |-> 1, exit |-> 1, read |-> 1, write |-> 1, channel |-> 1, goroutine |-> 1]

\* dict.get(key, default) and Series.get(key, default)
DictGet(d, key, default) == IF key \in DOMAIN d THEN d[key] ELSE default

RECURSIVE SumOver(_, _)
SumOver(keys, f) ==
    IF keys = {} THEN 0
    ELSE LET k == CHOOSE k \in keys : TRUE
         IN f[k] + SumOver(keys \ {k}, f)

\* the total over the four classic movements only
ClassicTotal(movements) ==
    movements["entry"] + movements["exit"] + movements["read"] + movements["write"]

\* sum(movements[k] * MULTIPLIERS.get(k, 1) for k in movements)
TotalCfp(movements) ==
    SumOver(DOMAIN movements,
            [k \in DOMAIN movements |-> movements[k] * DictGet(MULTIPLIERS, k, 1)])

\* round(n / d, 2) in hundredths, d > 0: the nearest hundredth, an exact tie
\* going to the even one.  The float quotient rounds the same way as the
\* exact one unless n / d is a tie that no float holds exactly, which needs a
\* divisor that is a multiple of 40: the divisors of the model are smaller.
Round2(n, d) ==
    LET q == (100 * n) \div d
        r == (100 * n) % d
    IN IF 2 * r > d \/ (2 * r = d /\ q % 2 = 1) THEN q + 1 ELSE q

\* a Python division: the value, or ZeroDivisionError
Value(v) == [err |-> FALSE, v |-> v]
ZeroDivisionError == [err |-> TRUE, v |-> 0]
PyRoundDiv(n, d) == IF d = 0 THEN ZeroDivisionError ELSE Value(Round2(n, d))

\* the division without its guard
ElocPerCfpUnguarded(total_eloc, total_cfp) == PyRoundDiv(total_eloc, total_cfp)

\* round(total_eloc / total_cfp, 2) if total_cfp else 0
ElocPerCfp(total_eloc, total_cfp) ==
    IF total_cfp # 0 THEN PyRoundDiv(total_eloc, total_cfp) ELSE Value(0)

\* round(total_cfp / code * 1000, 2) if code else 0
CfpPerKloc(total_cfp, code) ==
    IF code # 0 THEN PyRoundDiv(1000 * total_cfp, code) ELSE Value(0)

\* a missing cell of the input table: pandas reads it as the float nan
NaN == "NaN"

\* the part of process_repo after the scan: the returned dict, or the exception
Derive(row, movements) ==
    LET total_cfp == TotalCfp(movements)
        total_eloc == DictGet(row, "total_eloc", DictGet(row, "total", 0))
        code == DictGet(row, "code", 0)
        eloc_per_cfp == ElocPerCfp(total_eloc, total_cfp)
        cfp_per_kloc == CfpPerKloc(total_cfp, code)
    IN IF eloc_per_cfp.err \/ cfp_per_kloc.err
       THEN [raised |-> TRUE, result |-> <<>>]
       ELSE [raised |-> FALSE,
             result |-> << [k \in {"repo", "code", "comments", "blanks", "total_eloc",
                                   "cfp_total", "eloc_per_cfp", "cfp_per_kloc"} |->
                              CASE k = "repo" -> row["repo"]
                                [] k = "code" -> code
                                [] k = "comments" -> DictGet(row, "comments", 0)
                                [] k = "blanks" -> DictGet(row, "blanks", 0)
                                [] k = "total_eloc" -> total_eloc
                                [] k = "cfp_total" -> total_cfp
                                [] k = "eloc_per_cfp" -> eloc_per_cfp.v
                                [] k = "cfp_per_kloc" -> cfp_per_kloc.v]
                           @@ movements >>]

\* process_repo(row) run without interruption: an exception, None (<<>>) or
\* the record (<<record>>)
ProcessRepo(row) ==
    IF row["repo"] = NaN THEN [raised |-> TRUE, result |-> <<>>]
    ELSE IF ~PathExists(PathJoin(REPO_DIR, row["repo"]))
         THEN [raised |-> FALSE, result |-> <<>>]
         ELSE Derive(row, DetectMovements(PathJoin(REPO_DIR, row["repo"])))

(***************************************************************************)
(* The run of main.                                                        *)
(***************************************************************************)
\* most rows of the input table
MaxRows == 3

\* values of os.cpu_count() on the machines of the model
CpuCounts == {1, 17}

\* rows as the line-counting stage writes them, one missing its repo cell
Row(repo, code, comments, blanks) ==
    [repo |-> repo, code |-> code, comments |-> comments, blanks |-> blanks,
     total_eloc |-> code + comments + blanks, total |-> code + comments + blanks]

RowPool ==
    { Row("alpha", 10, 1, 1), Row("beta", 0, 0, 0), Row("empty", 10, 1, 1),
      Row("gone", 10, 1, 1), Row(NaN, 10, 1, 1) }

\* the columns of data/eloc_metrics.csv: all line metrics, an older table, or the repo alone
ColumnSets ==
    { {"repo", "code", "comments", "blanks", "total_eloc"}, {"repo", "code", "total"},
      {"repo"} }

\* a row as read from a table with the columns cols
ReadRow(row, cols) == [c \in cols |-> row[c]]

Tables ==
    UNION { { [i \in 1..n |-> ReadRow(rows[i], cols)] :
                rows \in [1..n -> RowPool], cols \in ColumnSets } : n \in 0..MaxRows }

VARIABLES
    input_exists,   \* os.path.exists(INPUT_FILE)
    cpu_count,      \* os.cpu_count()
    df,             \* the rows of INPUT_FILE
    pc,             \* where main is
    max_workers,    \* the pool size, 0 before the pool is made
    submitted,      \* rows submitted to the executor so far
    task,           \* per row: the future and its process_repo call
    collected,      \* futures as_completed has yielded
    results,        \* the list main appends to
    output          \* OUTPUT_FILE: <<>> while unwritten, else <<rows>>

vars == <<input_exists, cpu_count, df, pc, max_workers, submitted, task,
          collected, results, output>>

Tasks == 1..Len(df)

\* a future not yet submitted
NewTask == [st |-> "new", pos |-> 0, counts |-> ZeroCounts, result |-> <<>>]

Init ==
    /\ input_exists \in BOOLEAN
    /\ cpu_count \in CpuCounts
    /\ df \in (IF input_exists THEN Tables ELSE {<<>>})
    /\ pc = "start"
    /\ max_workers = 0
    /\ submitted = 0
    /\ task = [t \in Tasks |-> NewTask]
    /\ collected = {}
    /\ results = <<>>
    /\ output = <<>>

\* min(32, os.cpu_count() * 2)
HardCap == 32
MaxWorkers(cpus) == IF HardCap < cpus * 2 THEN HardCap ELSE cpus * 2

\* main up to the with statement: the input check, read_csv, the pool
ReadInput ==
    /\ pc = "start"
    /\ IF input_exists
       THEN /\ pc' = "submit"
            /\ max_workers' = MaxWorkers(cpu_count)
       ELSE /\ pc' = "fatal"
            /\ UNCHANGED max_workers
    /\ UNCHANGED <<input_exists, cpu_count, df, submitted, task, collected,
                   results, output>>

\* executor.submit(process_repo, row) for the next row of df.iterrows()
Submit ==
    /\ pc = "submit"
    /\ submitted < Len(df)
    /\ submitted' = submitted + 1
    /\ task' = [task EXCEPT ![submitted + 1].st = "queued"]
    /\ UNCHANGED <<input_exists, cpu_count, df, pc, max_workers, collected,
                   results, output>>

\* the dict of futures is complete: main enters the as_completed loop
AllSubmitted ==
    /\ pc = "submit"
    /\ submitted = Len(df)
    /\ pc' = "collect"
    /\ UNCHANGED <<input_exists, cpu_count, df, max_workers, submitted, task,
                   collected, results, output>>

Running(tk) == {t \in DOMAIN tk : tk[t].st = "running"}
Finished(tk) == {t \in DOMAIN tk : tk[t].st \in {"returned", "raised"}}

\* a thread per task, whatever the pool size
AlwaysFreeWorker(tk, workers) == TRUE

\* a worker thread is idle, or the pool may still start one
HasFreeWorker(tk, workers) == Cardinality(Running(tk)) < workers

\* the executor's work queue is first in, first out
NextQueued(tk, t) == tk[t].st = "queued" /\ \A u \in 1..(t - 1) : tk[u].st # "queued"

\* one counts dict shared by every call
SharedCounts(tk, t) == tk[1].counts

\* the counts dict of task t's own detect_movements call
OwnCounts(tk, t) == tk[t].counts

\* A worker takes the next work item and runs process_repo up to the scan:
\* the path is built (TypeError for a nan repo) and tested.
StartTask(t) ==
    /\ NextQueued(task, t)
    /\ HasFreeWorker(task, max_workers)
    /\ LET repo_name == df[t]["repo"] IN
       task' = [task EXCEPT ![t] =
                  IF repo_name = NaN THEN [@ EXCEPT !.st = "raised"]
                  ELSE IF ~PathExists(PathJoin(REPO_DIR, repo_name))
                       THEN [@ EXCEPT !.st = "returned"]
                       ELSE [@ EXCEPT !.st = "running", !.pos = 1,
                                      !.counts = ZeroCounts]]
    /\ UNCHANGED <<input_exists, cpu_count, df, pc, max_workers, submitted,
                   collected, results, output>>

\* detect_movements of task t opens, reads and matches its next file
ScanFile(t) ==
    /\ task[t].st = "running"
    /\ LET files == EligibleFiles(PathJoin(REPO_DIR, df[t]["repo"])) IN
       /\ task[t].pos <= Len(files)
       /\ task' = [task EXCEPT ![t].counts = ScanOne(OwnCounts(task, t), files[task[t].pos]),
                               ![t].pos = @ + 1]
    /\ UNCHANGED <<input_exists, cpu_count, df, pc, max_workers, submitted,
                   collected, results, output>>

\* detect_movements returns; process_repo derives the metrics and returns
FinishTask(t) ==
    /\ task[t].st = "running"
    /\ task[t].pos > Len(EligibleFiles(PathJoin(REPO_DIR, df[t]["repo"])))
    /\ LET d == Derive(df[t], OwnCounts(task, t)) IN
       task' = [task EXCEPT ![t].st = IF d.raised THEN "raised" ELSE "returned",
                               ![t].result = d.result]
    /\ UNCHANGED <<input_exists, cpu_count, df, pc, max_workers, submitted,
                   collected, results, output>>

\* the list rebuilt on every turn instead of appended to
KeepLast(res_list, result) ==
    IF result # <<>> THEN <<result[1]>> ELSE res_list

\* res = future.result(); if res: results.append(res)
Appended(res_list, result) ==
    IF result # <<>> THEN Append(res_list, result[1]) ELSE res_list

\* One turn of the as_completed loop on a finished future t: future.result()
\* returns the task's value or raises its exception, which leaves the loop.
\* as_completed yields the finished futures in no fixed order.
Collect(t) ==
    /\ pc = "collect"
    /\ t \in Finished(task) \ collected
    /\ collected' = collected \cup {t}
    /\ IF task[t].st = "raised"
       THEN /\ pc' = "aborting"
            /\ UNCHANGED results
       ELSE /\ results' = Appended(results, task[t].result)
            /\ UNCHANGED pc
    /\ UNCHANGED <<input_exists, cpu_count, df, max_workers, submitted, task, output>>

\* the loop ends, the with block waits for the pool, to_csv writes results
WriteOutput ==
    /\ pc = "collect"
    /\ collected = Tasks
    /\ output' = <<results>>
    /\ pc' = "done"
    /\ UNCHANGED <<input_exists, cpu_count, df, max_workers, submitted, task,
                   collected, results>>

\* The exception leaves the with block: shutdown(wait=True) lets every work
\* item run to its end, then the exception leaves main.
Propagate ==
    /\ pc = "aborting"
    /\ Finished(task) = Tasks
    /\ pc' = "crashed"
    /\ UNCHANGED <<input_exists, cpu_count, df, max_workers, submitted, task,
                   collected, results, output>>

Next ==
    \/ ReadInput
    \/ Submit
    \/ AllSubmitted
    \/ \E t \in Tasks : StartTask(t)
    \/ \E t \in Tasks : ScanFile(t)
    \/ \E t \in Tasks : FinishTask(t)
    \/ \E t \in Tasks : Collect(t)
    \/ WriteOutput
    \/ Propagate

Spec == Init /\ [][Next]_vars

(***************************************************************************)
(* Properties                                                              *)
(***************************************************************************)
RepoPath(t) == PathJoin(REPO_DIR, df[t]["repo"])
OnDisk(t) == df[t]["repo"] # NaN /\ PathExists(RepoPath(t))
HasRecord(t) == task[t].st = "returned" /\ task[t].result # <<>>
Written == output # <<>>
InList(list, r) == \E i \in DOMAIN list : list[i] = r
CountOf(list, name) == Cardinality({i \in DOMAIN list : list[i]["repo"] = name})
RowsOf(name) == {t \in Tasks : df[t]["repo"] = name}

\* C1: task-failure isolation.  Once the run has ended, normally or by an
\* exception, the record of every task that succeeded is in the written
\* output, whatever other task raised.
C1_FailureIsolated ==
    \A t \in Tasks :
        (pc \in {"done", "crashed"} /\ HasRecord(t))
            => (Written /\ InList(output[1], task[t].result[1]))

C2_Membership ==
    pc = "done" =>
        /\ Written
        /\ Len(output[1]) = Cardinality({t \in Tasks : OnDisk(t)})
        /\ \A t \in Tasks :
              CountOf(output[1], df[t]["repo"]) =
                  (IF OnDisk(t) THEN Cardinality(RowsOf(df[t]["repo"])) ELSE 0)

C2_AppendOnce ==
    \/ results' = results
    \/ \E t \in collected' \ collected :
          /\ HasRecord(t)
          /\ results' = Append(results, task[t].result[1])

\* C2: output-set membership.  When the run completes the output holds, for
\* every repository name, one record per input row of that name if its path
\* is on disk and none if it is not; every step leaves the collected records
\* as they are or appends one record of a future seen for the first time.
C2_OutputMembership == [][C2_Membership' /\ C2_AppendOnce]_vars

\* a completed run whose input named a repository absent on disk and one
\* present on disk
C2_Witness ==
    /\ pc = "done"
    /\ \E t, u \in Tasks : OnDisk(t) /\ ~OnDisk(u)
    /\ Len(output[1]) >= 1

InputRows == {ReadRow(row, cols) : row \in RowPool, cols \in ColumnSets}

SequentialTable == [row \in InputRows |-> ProcessRepo(row)]

C3_TaskAgrees(t) ==
    /\ task[t].st = "running" =>
          task[t].counts =
              ScanFrom(SubSeq(EligibleFiles(RepoPath(t)), 1, task[t].pos - 1), 1, ZeroCounts)
    /\ task[t].st \in {"returned", "raised"} =>
          /\ (task[t].st = "raised") = SequentialTable[df[t]].raised
          /\ task[t].result = SequentialTable[df[t]].result

\* the result list holds the records main's loop has collected, no other
C3_OnlyMainAppends ==
    /\ Len(results) = Cardinality({t \in collected : HasRecord(t)})
    /\ \A i \in DOMAIN results :
          \E t \in collected : HasRecord(t) /\ results[i] = task[t].result[1]

\* C3: concurrency correctness.  In every interleaving a task in its scan
\* holds the counts a sequential scan has after the same files, a finished
\* task holds what process_repo returns (or raises) when run alone, and the
\* result list holds exactly the records main's collecting loop has taken.
C3_ConcurrentEqualsSequential ==
    /\ \A t \in Tasks : C3_TaskAgrees(t)
    /\ C3_OnlyMainAppends

\* two tasks in the middle of their scans at once, each with matches counted
C3_Witness ==
    \E t, u \in Tasks :
        /\ t # u
        /\ task[t].st = "running" /\ task[t].pos > 1 /\ task[t].counts # ZeroCounts
        /\ task[u].st = "running" /\ task[u].pos > 1 /\ task[u].counts # ZeroCounts

\* C4: an empty work set is fatal.  A run none of whose input rows names a
\* repository on disk does not complete normally and writes no output.
C4_EmptyWorkSetIsFatal ==
    (\A t \in Tasks : ~OnDisk(t)) => (pc # "done" /\ ~Written)

\* C5: bounded worker pool.  The tasks executing at once never outnumber the
\* pool, whose size is at most twice the processor count and at most 32.
C5_BoundedPool ==
    /\ Cardinality(Running(task)) <= max_workers
    /\ max_workers <= 2 * cpu_count
    /\ max_workers <= 32

\* the pool is full while a submitted task still waits
C5_Witness ==
    /\ Cardinality(Running(task)) = max_workers
    /\ max_workers > 0
    /\ \E t \in Tasks : task[t].st = "queued"

MetricFields ==
    {"repo", "code", "comments", "blanks", "total_eloc",
     "cfp_total", "eloc_per_cfp", "cfp_per_kloc"}

C6_RecordSums(r) ==
    /\ DOMAIN r \ MetricFields = {"entry", "exit", "read", "write", "channel", "goroutine"}
    /\ r["cfp_total"] =
          r["entry"] * MULTIPLIERS["entry"] + r["exit"] * MULTIPLIERS["exit"]
          + r["read"] * MULTIPLIERS["read"] + r["write"] * MULTIPLIERS["write"]
          + r["channel"] * MULTIPLIERS["channel"]
          + r["goroutine"] * MULTIPLIERS["goroutine"]

\* C6: cfp_total of every record is the sum, over exactly the movement
\* categories, of the record's raw count times the category's weight.
C6_CfpTotalIsWeightedSum ==
    /\ \A t \in Tasks : HasRecord(t) => C6_RecordSums(task[t].result[1])
    /\ \A i \in DOMAIN results : C6_RecordSums(results[i])

\* a collected record with entry movements and channel or goroutine movements
C6_Witness ==
    \E i \in DOMAIN results :
        /\ results[i]["channel"] > 0 \/ results[i]["goroutine"] > 0
        /\ results[i]["entry"] > 0

C7_RecordSentinels(r) ==
    /\ r["cfp_total"] = 0 => r["eloc_per_cfp"] = 0
    /\ r["code"] = 0 => r["cfp_per_kloc"] = 0

\* C7: zero-denominator policy.  A record with cfp_total 0 has eloc_per_cfp 0,
\* a record with code 0 (given or defaulted) has cfp_per_kloc 0, and every
\* finished task of a repository on disk returned its record: the derivation
\* raised nothing.
C7_ZeroDenominators ==
    \A t \in Tasks :
        /\ HasRecord(t) => C7_RecordSentinels(task[t].result[1])
        /\ (OnDisk(t) /\ task[t].st \in {"returned", "raised"}) => HasRecord(t)

\* collected together: a record with lines but no movements, and a record
\* with movements whose code count is 0
C7_Witness ==
    /\ \E i \in DOMAIN results :
          results[i]["cfp_total"] = 0 /\ results[i]["total_eloc"] > 0
    /\ \E i \in DOMAIN results :
          results[i]["code"] = 0 /\ results[i]["cfp_total"] > 0

IsExcludedFile(root, name) ==
    \/ \E tok \in {"vendor", "third_party", "generated"} : Contains(tok, root)
    \/ EndsWith(name, "_test.go")

RECURSIVE SumMatches(_, _)
SumMatches(files, i) ==
    IF i > Len(files) THEN ZeroCounts
    ELSE LET rest == SumMatches(files, i + 1)
             here == IF files[i].readable /\ EndsWith(files[i].name, ".go")
                     THEN MatchCounts(files[i].text) ELSE ZeroCounts
         IN [k \in Categories |-> here[k] + rest[k]]

RECURSIVE PrunedCounts(_, _)
PrunedCounts(walk, d) ==
    IF d > Len(walk) THEN ZeroCounts
    ELSE LET kept == SelectSeq(walk[d].files,
                               LAMBDA f : ~IsExcludedFile(walk[d].root, f.name))
             here == SumMatches(kept, 1)
             rest == PrunedCounts(walk, d + 1)
         IN [k \in Categories |-> here[k] + rest[k]]

PrunedTable == [p \in DOMAIN FileSystem |-> PrunedCounts(OsWalk(p), 1)]

\* C8: exclusion.  The counts of a scanned repository are those of its tree
\* with every file removed whose directory path contains vendor, third_party
\* or generated, or whose name ends with _test.go.
C8_ExcludedContributeNothing ==
    \A t \in Tasks :
        HasRecord(t) =>
            \A k \in Categories : task[t].result[1][k] = PrunedTable[RepoPath(t)][k]

\* files with matching text under an excluded directory, under a directory
\* below it, and with the test suffix, in a repository that was scanned
HasMatches(f) == f.readable /\ MatchTable[f.text] # ZeroCounts

C8_Witness ==
    \E t \in Tasks :
        /\ HasRecord(t)
        /\ LET walk == OsWalk(RepoPath(t)) IN
           /\ \E d \in DOMAIN walk : \E f \in DOMAIN walk[d].files :
                 /\ EndsWith(walk[d].root, "/vendor")
                 /\ EndsWith(walk[d].files[f].name, ".go")
                 /\ HasMatches(walk[d].files[f])
           /\ \E d \in DOMAIN walk : \E f \in DOMAIN walk[d].files :
                 /\ Contains("/vendor/", walk[d].root)
                 /\ EndsWith(walk[d].files[f].name, ".go")
                 /\ HasMatches(walk[d].files[f])
           /\ \E d \in DOMAIN walk : \E f \in DOMAIN walk[d].files :
                 /\ EndsWith(walk[d].files[f].name, "_test.go")
                 /\ HasMatches(walk[d].files[f])

RECURSIVE ReadableSum(_, _)
ReadableSum(files, i) ==
    IF i > Len(files) THEN ZeroCounts
    ELSE LET rest == ReadableSum(files, i + 1)
         IN [k \in Categories |->
               (IF files[i].readable THEN MatchTable[files[i].text][k] ELSE 0) + rest[k]]

ReadableTable == [p \in DOMAIN FileSystem |-> ReadableSum(EligibleFiles(p), 1)]

\* C9: unreadable-file isolation.  A task whose repository is on disk never
\* ends in an exception; after each file of its scan its counts are the full
\* matches of the readable eligible files passed, an unreadable file adding
\* nothing; and so are the counts of the record it returns.
C9_UnreadableFileIsolated ==
    \A t \in Tasks :
        /\ OnDisk(t) => task[t].st # "raised"
        /\ task[t].st = "running" =>
              task[t].counts =
                  ReadableSum(SubSeq(EligibleFiles(RepoPath(t)), 1, task[t].pos - 1), 1)
        /\ HasRecord(t) =>
              \A k \in Categories : task[t].result[1][k] = ReadableTable[RepoPath(t)][k]

\* a returned record of a repository with an unreadable eligible file whose
\* text would match, and a readable file that matched
C9_Witness ==
    \E t \in Tasks :
        /\ HasRecord(t)
        /\ TotalCfp(task[t].counts) > 0
        /\ \E i \in DOMAIN EligibleFiles(RepoPath(t)) :
              LET f == EligibleFiles(RepoPath(t))[i]
              IN ~f.readable /\ MatchTable[f.text] # ZeroCounts

OtherEntryRules == SelectSeq(PATTERNS["entry"], LAMBDA p : p # FuncDeclRule)

ExportedEntry(text) ==
    SumRules(OtherEntryRules, text, 1) + FindAllCount(FuncDeclRule, text, FALSE)

RECURSIVE ExportedEntrySum(_, _)
ExportedEntrySum(files, i) ==
    IF i > Len(files) THEN 0
    ELSE (IF files[i].readable THEN ExportedEntry(files[i].text) ELSE 0)
         + ExportedEntrySum(files, i + 1)

ExportedEntryTable ==
    [p \in DOMAIN FileSystem |-> ExportedEntrySum(EligibleFiles(p), 1)]

\* C10: only exported functions count as entry points.  The entry count of a
\* record is what the entry rules give when the function-declaration rule
\* takes a name only with an uppercase first letter.
C10_OnlyExportedFuncsAreEntries ==
    \A t \in Tasks :
        HasRecord(t) => task[t].result[1]["entry"] = ExportedEntryTable[RepoPath(t)]

=============================================================================
